---- MODULE Spec2Model ----
(***************************************************************************)
(* A model of the link-resolution engine of ab_links_solver.py:            *)
(* EnhancedABLinksSolver.detect_service, safe_request, the extraction      *)
(* strategies, solve_single and solve_batch.                               *)
(*                                                                         *)
(* A URL string is a sequence of tokens.  The scheme, the "www." prefix    *)
(* and the host are one token each; the rest of the string is one token    *)
(* per character ("/", a digit, a letter, another printable character, a   *)
(* newline).  An optional value (Optional[...] in the source) is a         *)
(* sequence of length 0 (None) or 1.                                       *)
(***************************************************************************)
EXTENDS Integers, Sequences, FiniteSets, TLC

VARIABLES
    max_retries,   \* self.max_retries
    max_workers,   \* the max_workers argument of solve_batch
    urls,          \* the urls argument of solve_batch / the url of solve_single
    tasks,         \* one record per submitted solve_single call
    results,       \* the local list "results" of solve_batch, in collection order
    returned,      \* None until solve_batch returns, then Some(returned list)
    durl,          \* the argument of a detect_service call
    dsvc,          \* None, or Some(value detect_service returned for durl)
    tick,          \* what time.time() measures for code that does not sleep:
                   \* 1 unit, or 0 when the clock is too coarse to tell
    batch_exc,     \* None, or Some(message of the exception solve_batch raised)
    format,        \* the format argument of export_results
    exported,      \* None, or Some(outcome of export_results(results, format))
    page,          \* solve_from_page's argument and what its two callees do
    captcha        \* None, or Some(outcome of solve_from_page)

vars == <<max_retries, max_workers, urls, tasks, results, returned, durl, dsvc,
          tick, batch_exc, format, exported, page, captcha>>

None == <<>>
NoPage == <<>>
Some(x) == <<x>>

-----------------------------------------------------------------------------
(* Regular expressions of service_patterns, over tokens.                   *)

Digits == {"1", "2"}
Letters == {"a", "b", "A"}
Others == {"-", ":"}
Newline == "\n"

\* re.IGNORECASE: a token and its lower-case form match the same pattern text.
Lower(tok) ==
    CASE tok = "HTTPS://" -> "https://"
      [] tok = "WWW." -> "www."
      [] tok = "ADF.LY" -> "adf.ly"
      [] tok = "A" -> "a"
      [] OTHER -> tok

\* Pattern elements: a literal (one of a set of tokens), an optional group,
\* one-or-more tokens of a class.
Lit(set) == [kind |-> "lit", set |-> set, sub |-> <<>>]
Opt(sub) == [kind |-> "opt", set |-> {}, sub |-> sub]
Plus(set) == [kind |-> "plus", set |-> set, sub |-> <<>>]

Scheme == Lit({"http://", "https://"})
Www == Opt(<<Lit({"www."})>>)
Slash == Lit({"/"})
\* \d+ ; [A-Za-z0-9]+ ; .+ (any character but a newline)
DigitsPlus == Plus(Digits)
AlnumPlus == Plus(Digits \cup {Lower(c) : c \in Letters})
AnyPlus == Plus(Digits \cup {Lower(c) : c \in Letters} \cup Others \cup {"/"})

HostNumPath(host) == <<Scheme, Www, Lit({host}), Slash, DigitsPlus, Slash, AnyPlus>>

service_order == <<"adfly", "linkvertise", "gyanilinks", "shortconnect">>

service_patterns ==
    [adfly |-> <<HostNumPath("adf.ly"), HostNumPath("adfoc.us")>>,
     linkvertise |->
        << <<Scheme, Www, Lit({"linkvertise.com"}), Slash,
             Opt(<<DigitsPlus, Slash>>), AnyPlus>>,
           HostNumPath("link-to.net") >>,
     gyanilinks |-> <<HostNumPath("gyanilinks.com")>>,
     shortconnect |->
        << <<Scheme, Www, Lit({"shortconnect.com"}), Slash, AlnumPlus>> >>]

\* re.match(pattern, s, re.IGNORECASE): the pattern matches a prefix of s.
RECURSIVE ReMatch(_, _)
ReMatch(pat, s) ==
    IF pat = <<>> THEN TRUE
    ELSE LET h == Head(pat)
             rest == Tail(pat)
         IN CASE h.kind = "lit" ->
                    /\ s # <<>>
                    /\ Lower(Head(s)) \in h.set
                    /\ ReMatch(rest, Tail(s))
              [] h.kind = "opt" ->
                    \/ ReMatch(h.sub \o rest, s)
                    \/ ReMatch(rest, s)
              [] h.kind = "plus" ->
                    \E n \in 1..Len(s) :
                        /\ \A k \in 1..n : Lower(s[k]) \in h.set
                        /\ ReMatch(rest, SubSeq(s, n + 1, Len(s)))

\* A detect_service that tries only the first pattern of each service.
FirstPatternMatches(patterns, url) ==
    patterns # <<>> /\ ReMatch(Head(patterns), url)

\* The inner loop of detect_service: does any pattern of the list match?
RECURSIVE AnyPatternMatches(_, _)
AnyPatternMatches(patterns, url) ==
    IF patterns = <<>> THEN FALSE
    ELSE IF ReMatch(Head(patterns), url) THEN TRUE
    ELSE AnyPatternMatches(Tail(patterns), url)

\* The outer loop of detect_service over service_patterns.items().
RECURSIVE DetectFrom(_, _)
DetectFrom(services, url) ==
    IF services = <<>> THEN "unknown"
    ELSE IF AnyPatternMatches(service_patterns[Head(services)], url)
         THEN Head(services)
    ELSE DetectFrom(Tail(services), url)

detect_service(url) == DetectFrom(service_order, url)

-----------------------------------------------------------------------------
(* The URL strings the model draws its inputs from.                        *)

Schemes == {"http://", "https://", "HTTPS://", "ftp://"}
Hosts == {"adf.ly", "ADF.LY", "adfoc.us", "j.gs", "q.gs",
          "linkvertise.com", "link-to.net", "link-center.net", "link-hub.net",
          "gyanilinks.com", "shortconnect.com", "example.com", "adf-ly"}
Paths == { <<>>, <<"/">>, <<"/", "1">>, <<"/", "a">>, <<"/", "1", "/">>,
           <<"/", "1", "2", "/", "a">>, <<"/", "1", "/", Newline>>,
           <<"/", "a", "/", "b">>, <<"/", "-">>, <<"/", "A", "1">>,
           <<"/", "1", "/", ":", "/">> }

\* scheme, optional "www.", host, path; and strings with no scheme at all.
DetectUrls ==
    { <<sc>> \o w \o <<h>> \o p :
        sc \in Schemes, w \in {<<>>, <<"www.">>, <<"WWW.">>}, h \in Hosts, p \in Paths }
    \cup { <<h>> \o p : h \in Hosts, p \in Paths }
    \cup Paths

-----------------------------------------------------------------------------
(* safe_request: one fetch attempt per step.                               *)

\* What one session.get / raise_for_status can do: return a response whose
\* status is accepted ("ok"), raise a requests RequestException ("fail"), or
\* raise another exception ("exc").
OkOutcome(final, body) == [kind |-> "ok", url |-> final, body |-> body, msg |-> ""]
FailOutcome == [kind |-> "fail", url |-> <<>>, body |-> <<>>, msg |-> "timeout"]
ExcOutcome(msg) == [kind |-> "exc", url |-> <<>>, body |-> <<>>, msg |-> msg]

\* A loop that runs one iteration too many.
InRangeInclusive(attempt, mr) == attempt <= mr

\* range(self.max_retries): is there an iteration with this loop index?
InRange(attempt, mr) == attempt < mr

\* "if attempt == self.max_retries - 1: return None"
IsLastAttempt(attempt, mr) == attempt = mr - 1

\* A linear backoff.
BackoffLinear(attempt) == 2 * attempt

\* "time.sleep(2 ** attempt)"
BackoffDelay(attempt) == 2 ^ attempt

\* The state of a safe_request call: the loop index, the number of
\* session.get calls made, the outcome of each of them in order, the sleeps
\* taken, and how the call ended ("running", "response", "none", "raise").
\* A safe_request whose loop tests its bound only after the first attempt.
SafeRequestEnterDoWhile(mr) ==
    [attempt |-> 0, fetches |-> 0, log |-> <<>>, sleeps |-> <<>>,
     ret |-> "running", resp |-> FailOutcome]

SafeRequestEnter(mr) ==
    [attempt |-> 0, fetches |-> 0, log |-> <<>>, sleeps |-> <<>>,
     ret |-> IF InRange(0, mr) THEN "running" ELSE "none",
     resp |-> FailOutcome]

\* A loop body whose except clause catches every exception.
SafeRequestStepCatchAll(sr, outcome, mr) ==
    LET made == [sr EXCEPT !.fetches = @ + 1, !.log = Append(@, outcome.kind)]
    IN IF outcome.kind = "ok"
       THEN [made EXCEPT !.ret = "response", !.resp = outcome]
       ELSE IF IsLastAttempt(sr.attempt, mr)
            THEN [made EXCEPT !.ret = "none"]
            ELSE [made EXCEPT
                    !.sleeps = Append(@, BackoffDelay(sr.attempt)),
                    !.attempt = @ + 1,
                    !.ret = IF InRange(sr.attempt + 1, mr)
                            THEN "running" ELSE "none"]

\* One iteration of the loop body, on the outcome of its fetch.
SafeRequestStep(sr, outcome, mr) ==
    LET made == [sr EXCEPT !.fetches = @ + 1, !.log = Append(@, outcome.kind)]
    IN CASE outcome.kind = "ok" ->
                [made EXCEPT !.ret = "response", !.resp = outcome]
         [] outcome.kind = "exc" ->
                [made EXCEPT !.ret = "raise", !.resp = outcome]
         [] OTHER ->
                IF IsLastAttempt(sr.attempt, mr)
                THEN [made EXCEPT !.ret = "none"]
                ELSE [made EXCEPT
                        !.sleeps = Append(@, BackoffDelay(sr.attempt)),
                        !.attempt = @ + 1,
                        !.ret = IF InRange(sr.attempt + 1, mr)
                                THEN "running" ELSE "none"]

-----------------------------------------------------------------------------
(* The extraction strategies.                                              *)

\* A strategy's outcome: a value (None or Some(url)), or an exception.
Value(v) == [raised |-> FALSE, value |-> v, msg |-> ""]
Raised(msg) == [raised |-> TRUE, value |-> None, msg |-> msg]

\* A descramble with the two cases exchanged.
RECURSIVE DecodeSwappedFrom(_, _, _)
DecodeSwappedFrom(ysmm, i, decoded) ==
    IF i >= Len(ysmm) THEN decoded
    ELSE DecodeSwappedFrom(ysmm, i + 1,
            IF i % 2 = 1 THEN Append(decoded, ysmm[i + 1])
                         ELSE <<ysmm[i + 1]>> \o decoded)

DecodeSwapped(ysmm) == DecodeSwappedFrom(ysmm, 0, <<>>)

\* The descramble loop of extract_adfly_link.
RECURSIVE DecodeFrom(_, _, _)
DecodeFrom(ysmm, i, decoded) ==
    IF i >= Len(ysmm) THEN decoded
    ELSE DecodeFrom(ysmm, i + 1,
            IF i % 2 = 0 THEN Append(decoded, ysmm[i + 1])
                         ELSE <<ysmm[i + 1]>> \o decoded)

Decode(ysmm) == DecodeFrom(ysmm, 0, <<>>)

\* [^\s<>"']
UrlChar(c) == c \notin {" ", Newline, "<", ">", "\"", "'"}

\* The length of the match of https?://[^\s<>"']+ at position i, or 0.
UrlMatchLen(s, i) ==
    LET at(k) == IF i + k <= Len(s) THEN s[i + k] ELSE ""
        head == IF at(0) = "h" /\ at(1) = "t" /\ at(2) = "t" /\ at(3) = "p"
                THEN IF at(4) = "s" /\ at(5) = ":" /\ at(6) = "/" /\ at(7) = "/"
                     THEN 8
                     ELSE IF at(4) = ":" /\ at(5) = "/" /\ at(6) = "/"
                          THEN 7 ELSE 0
                ELSE 0
        run == IF head = 0 THEN {}
               ELSE { n \in 1..(Len(s) - i - head + 1) :
                        \A k \in 0..(n - 1) : UrlChar(s[i + head + k]) }
    IN IF run = {} THEN 0
       ELSE head + (CHOOSE n \in run : \A m \in run : m <= n)

\* re.search(r'(https?://[^\s<>"\']+)', decoded): the leftmost match.
UrlSearch(s) ==
    LET starts == { i \in 1..Len(s) : UrlMatchLen(s, i) > 0 }
    IN IF starts = {} THEN None
       ELSE LET i == CHOOSE j \in starts : \A k \in starts : j <= k
            IN Some(SubSeq(s, i, i + UrlMatchLen(s, i) - 1))

\* A response body is the sequence of its ysmm assignments, each with the
\* captured token and whether "var " stands before it.
\* re.search of the first pattern (var\s+ysmm\s*=...) and of the second.
PatternCaptures(html) ==
    LET withVar == { k \in 1..Len(html) : html[k].var }
        first == IF withVar = {} THEN None
                 ELSE Some(html[CHOOSE k \in withVar : \A m \in withVar : k <= m].ysmm)
        second == IF html = <<>> THEN None ELSE Some(html[1].ysmm)
    IN <<first, second>>

\* "for pattern in patterns": the first pattern whose match decodes to a URL.
RECURSIVE AdflyScan(_)
AdflyScan(captures) ==
    IF captures = <<>> THEN None
    ELSE LET match == Head(captures)
             url_match == IF match = None THEN None ELSE UrlSearch(Decode(match[1]))
         IN IF url_match # None THEN url_match ELSE AdflyScan(Tail(captures))

\* An extract_adfly_link without its try/except.
extract_adfly_link_no_try(url, sr) ==
    CASE sr.ret = "raise" -> Raised(sr.resp.msg)
      [] sr.ret = "none" -> Value(None)
      [] OTHER -> Value(AdflyScan(PatternCaptures(sr.resp.body)))

\* extract_adfly_link after its safe_request(url, allow_redirects=False).
extract_adfly_link(url, sr) ==
    CASE sr.ret = "raise" -> Value(None)
      [] sr.ret = "none" -> Value(None)
      [] OTHER -> Value(AdflyScan(PatternCaptures(sr.resp.body)))

\* extract_linkvertise_link after its safe_request(url, allow_redirects=True).
extract_linkvertise_link(url, sr) ==
    CASE sr.ret = "raise" -> Value(None)
      [] sr.ret = "response" /\ sr.resp.url # url -> Value(Some(sr.resp.url))
      [] OTHER -> Value(None)

\* The shortconnect branch of solve_single, which has no try of its own.
shortconnect_branch(url, sr) ==
    CASE sr.ret = "raise" -> Raised(sr.resp.msg)
      [] sr.ret = "response" -> Value(Some(sr.resp.url))
      [] OTHER -> Value(None)

\* The if/elif chain of solve_single.
Strategy(service, url, sr) ==
    CASE service = "adfly" -> extract_adfly_link(url, sr)
      [] service = "linkvertise" -> extract_linkvertise_link(url, sr)
      [] service = "gyanilinks" -> extract_adfly_link(url, sr)
      [] service = "shortconnect" -> shortconnect_branch(url, sr)
      [] OTHER -> Value(None)

\* A solve_single that fetches for every service, "unknown" included.
UsesFetchAlways(service) == TRUE

\* Does the branch of the service call safe_request?
UsesFetch(service) ==
    service \in {"adfly", "linkvertise", "gyanilinks", "shortconnect"}

-----------------------------------------------------------------------------
(* solve_single.                                                           *)

\* SolveResult(original_url=url, service=service, solved_url=None, success=False)
NewResult(url, service) ==
    [original_url |-> url, service |-> service, solved_url |-> None,
     success |-> FALSE, error |-> None, response_time |-> None]

\* A solve_single whose except clause drops the exception's message.
SolveSingleResultNoError(url, service, out) ==
    [NewResult(url, service) EXCEPT
        !.solved_url = out.value, !.success = (out.value # None)]

\* A solve_single that reports success whatever the strategy returned.
SolveSingleResultAlwaysSuccess(url, service, out) ==
    IF out.raised
    THEN [NewResult(url, service) EXCEPT !.error = Some(out.msg)]
    ELSE [NewResult(url, service) EXCEPT !.solved_url = out.value, !.success = TRUE]

\* A solve_single whose strategy result is stored before the exception is seen.
SolveSingleResultErrorAfterStore(url, service, out) ==
    IF out.raised
    THEN [NewResult(url, service) EXCEPT
            !.solved_url = Some(url), !.success = TRUE, !.error = Some(out.msg)]
    ELSE [NewResult(url, service) EXCEPT
            !.solved_url = out.value, !.success = (out.value # None)]

\* The try/except of solve_single around the strategy's outcome.
SolveSingleResult(url, service, out) ==
    IF out.raised
    THEN [NewResult(url, service) EXCEPT !.error = Some(out.msg)]
    ELSE [NewResult(url, service) EXCEPT
            !.solved_url = out.value, !.success = (out.value # None)]

\* The function solve_single calls for the service, if any.
StrategyCall(service) ==
    CASE service \in {"adfly", "gyanilinks"} -> "extract_adfly_link"
      [] service = "linkvertise" -> "extract_linkvertise_link"
      [] service = "shortconnect" -> "safe_request"
      [] OTHER -> "none"

\* An element of the urls list that is not a str: re.match raises TypeError on it.
NotStr == <<"<object>">>
IsStr(url) == url # NotStr
TypeErrorMsg == "expected string or bytes-like object"

\* A solve_single call: queued in the executor, blocked in safe_request
\* ("fetch"), returned ("done") or ended by an exception ("raised"); runs
\* counts the times solve_single was entered for it and calls the
\* safe_request calls it made.
QueuedTask ==
    [pc |-> "queued", service |-> "", call |-> "none", sr |-> SafeRequestEnter(0),
     result |-> None, exc |-> None, collected |-> FALSE, runs |-> 0, calls |-> 0]

RECURSIVE Sum(_)
Sum(seq) == IF seq = <<>> THEN 0 ELSE Head(seq) + Sum(Tail(seq))

\* time.time() - start_time: the sleeps of safe_request, plus what the clock
\* measures for the fetches and for the rest of solve_single.
Elapsed(sr) == Sum(sr.sleeps) + tick * (sr.fetches + 1)

\* "result.response_time = time.time() - start_time"
Timed(result, sr) == [result EXCEPT !.response_time = Some(Elapsed(sr))]

Finished(t, url, service, sr) ==
    [t EXCEPT !.pc = "done", !.service = service, !.call = StrategyCall(service),
              !.sr = sr,
              !.result = Some(Timed(
                  SolveSingleResult(url, service, Strategy(service, url, sr)), sr))]

\* A solve_single that calls safe_request again when the first call gave
\* up: its attempts are those of two calls.
SolveSingleBeginTwoCalls(t, url, mr) ==
    IF ~IsStr(url)
    THEN [t EXCEPT !.pc = "raised", !.exc = Some(TypeErrorMsg), !.runs = @ + 1]
    ELSE LET service == detect_service(url)
             sr == SafeRequestEnter(2 * mr)
             entered == [t EXCEPT !.runs = @ + 1,
                                  !.calls = IF UsesFetch(service) THEN 2 ELSE 0]
         IN IF UsesFetch(service) /\ sr.ret = "running"
            THEN [entered EXCEPT !.pc = "fetch", !.service = service,
                                 !.call = StrategyCall(service), !.sr = sr]
            ELSE Finished(entered, url, service,
                          IF UsesFetch(service) THEN sr ELSE t.sr)

\* solve_single from its first line to its first fetch (or to its return,
\* when it makes none); service is what detect_service gives for url.
SolveSingleBeginAs(t, url, mr, service) ==
    IF ~IsStr(url)
    THEN [t EXCEPT !.pc = "raised", !.exc = Some(TypeErrorMsg), !.runs = @ + 1]
    ELSE LET sr == SafeRequestEnter(mr)
             entered == [t EXCEPT !.runs = @ + 1,
                                  !.calls = IF UsesFetch(service) THEN 1 ELSE 0]
         IN IF UsesFetch(service) /\ sr.ret = "running"
            THEN [entered EXCEPT !.pc = "fetch", !.service = service,
                                 !.call = StrategyCall(service), !.sr = sr]
            ELSE Finished(entered, url, service,
                          IF UsesFetch(service) THEN sr ELSE t.sr)

SolveSingleBegin(t, url, mr) == SolveSingleBeginAs(t, url, mr, detect_service(url))

\* solve_single from one fetch outcome to the next fetch, or to its return.
SolveSingleFetched(t, url, outcome, mr) ==
    LET sr == SafeRequestStep(t.sr, outcome, mr)
    IN IF sr.ret = "running"
       THEN [t EXCEPT !.sr = sr]
       ELSE Finished(t, url, t.service, sr)

-----------------------------------------------------------------------------
(* The environment: what a fetch of a URL can yield.                       *)

ExcMsgs == {"boom"}
RedirectTargets == { <<"https://", "example.com", "/", "b">> }

\* ":p/t/tah" descrambles to "http://a"; "ab" descrambles to "ba".
YsmmUrl == <<":", "p", "/", "t", "/", "t", "a", "h">>
YsmmNoUrl == <<"a", "b">>

\* The token of test_extract_adfly_link_success: 'MTIzdGVzdGluZzEyMw=='.
YsmmTest == <<"M", "T", "I", "z", "d", "G", "V", "z", "d", "G",
              "l", "u", "Z", "z", "E", "y", "M", "w", "=", "=">>

\* The token that the descramble turns into the text: the character at
\* 0-based index j of the token is, for odd j, the one the descramble puts
\* (j + 1) / 2 places before the middle, and for even j, j / 2 places after.
Scramble(text) ==
    LET m == Len(text) \div 2
    IN [p \in 1..Len(text) |->
            IF (p - 1) % 2 = 1 THEN text[m - ((p - 2) \div 2)]
                               ELSE text[m + ((p - 1) \div 2) + 1]]

\* A token whose text holds "https://b" between other characters.
YsmmHttps == Scramble(<<"x", "h", "t", "t", "p", "s", ":", "/", "/", "b", "<", "c">>)

\* Every token of up to MaxTokenLen characters over three letters.
MaxTokenLen == 4
TokenChars == {"a", "b", "c"}
Tokens == UNION { [1..k -> TokenChars] : k \in 1..MaxTokenLen }

Bodies ==
    { <<>>,
      << [var |-> FALSE, ysmm |-> YsmmNoUrl] >>,
      << [var |-> FALSE, ysmm |-> YsmmUrl], [var |-> TRUE, ysmm |-> YsmmNoUrl] >> }
    \cup { << [var |-> TRUE, ysmm |-> t] >> :
             t \in Tokens \cup {YsmmUrl, YsmmNoUrl, YsmmTest, YsmmHttps} }

\* allow_redirects=False for the adfly strategy, True for the others.
FetchOutcomes(url, service) ==
    {FailOutcome} \cup {ExcOutcome(m) : m \in ExcMsgs}
    \cup IF service \in {"adfly", "gyanilinks"}
         THEN {OkOutcome(url, b) : b \in Bodies}
         ELSE {OkOutcome(f, <<>>) : f \in {url} \cup RedirectTargets}

-----------------------------------------------------------------------------
(* solve_batch.                                                            *)

Running == { i \in DOMAIN tasks : tasks[i].pc = "fetch" }
Queued == { i \in DOMAIN tasks : tasks[i].pc = "queued" }

\* A pool that lets one call too many run.
WorkerFreeInclusive(running, mw) == running <= mw

\* ThreadPoolExecutor(max_workers): a call starts only on a free worker thread.
WorkerFree(running, mw) == running < mw

\* ThreadPoolExecutor.__init__: "if max_workers <= 0: raise ValueError(...)"
PoolErrorMsg == "max_workers must be greater than 0"
PoolAccepts(mw) == mw > 0

\* solve_batch ends at "with ThreadPoolExecutor(max_workers=max_workers)":
\* the constructor raises and nothing is submitted.
PoolRejects ==
    /\ ~PoolAccepts(max_workers)
    /\ batch_exc = None
    /\ batch_exc' = Some(PoolErrorMsg)
    /\ UNCHANGED <<max_retries, max_workers, urls, tasks, results, returned,
                   durl, dsvc, tick, format, exported, page, captcha>>

\* A worker thread of the pool takes the next queued call.
StartTask(i) ==
    /\ returned = None
    /\ PoolAccepts(max_workers)
    /\ i \in Queued
    /\ \A j \in Queued : i <= j
    /\ WorkerFree(Cardinality(Running), max_workers)
    /\ tasks' = [tasks EXCEPT ![i] = SolveSingleBegin(@, urls[i], max_retries)]
    /\ UNCHANGED <<max_retries, max_workers, urls, results, returned, durl, dsvc,
                 tick, batch_exc, format, exported,
                   page, captcha>>

\* A safe_request whose retry budget is shared by the calls that are running.
AttemptSharedBudget(i) ==
    /\ i \in Running
    /\ \E outcome \in FetchOutcomes(urls[i], tasks[i].service) :
          tasks' = [tasks EXCEPT ![i] =
                        SolveSingleFetched(@, urls[i], outcome,
                                           max_retries - (Cardinality(Running) - 1))]
    /\ UNCHANGED <<max_retries, max_workers, urls, results, returned, durl, dsvc,
                 tick, batch_exc, format, exported,
                   page, captcha>>

\* A fetch attempt of a running call ends.
Attempt(i) ==
    /\ i \in Running
    /\ \E outcome \in FetchOutcomes(urls[i], tasks[i].service) :
          tasks' = [tasks EXCEPT ![i] =
                        SolveSingleFetched(@, urls[i], outcome, max_retries)]
    /\ UNCHANGED <<max_retries, max_workers, urls, results, returned, durl, dsvc,
                 tick, batch_exc, format, exported,
                   page, captcha>>

\* An as_completed that never yields a future that raised.
CompletedOnlyDone(t) == t.pc = "done"

\* as_completed yields the futures that returned or raised.
Completed(t) == t.pc \in {"done", "raised"}

\* A solve_batch that synthesizes a result without the exception's message.
CollectedWithoutError(t, url) ==
    IF t.pc = "raised" THEN NewResult(url, "unknown") ELSE t.result[1]

\* The body of "for future in as_completed(future_to_url)" for one future.
Collected(t, url) ==
    IF t.pc = "raised"
    THEN [NewResult(url, "unknown") EXCEPT !.error = t.exc]
    ELSE t.result[1]

Collect(i) ==
    /\ returned = None
    /\ i \in DOMAIN tasks
    /\ Completed(tasks[i])
    /\ ~tasks[i].collected
    /\ results' = Append(results, Collected(tasks[i], urls[i]))
    /\ tasks' = [tasks EXCEPT ![i].collected = TRUE]
    /\ UNCHANGED <<max_retries, max_workers, urls, returned, durl, dsvc,
                 tick, batch_exc, format, exported,
                   page, captcha>>

\* url_order = {url: i for i, url in enumerate(urls)}: the last index of the
\* url (0-based), and url_order.get(x.original_url, 0).
url_order(us, url) ==
    LET at == { k \in 1..Len(us) : us[k] = url }
    IN IF at = {} THEN 0
       ELSE (CHOOSE k \in at : \A m \in at : m <= k) - 1

\* list.sort(key=...): a stable sort, here by insertion.
RECURSIVE InsertStable(_, _, _)
InsertStable(sorted, r, us) ==
    IF sorted = <<>> THEN <<r>>
    ELSE LET last == sorted[Len(sorted)]
         IN IF url_order(us, last.original_url) <= url_order(us, r.original_url)
            THEN Append(sorted, r)
            ELSE Append(InsertStable(SubSeq(sorted, 1, Len(sorted) - 1), r, us), last)

RECURSIVE SortFrom(_, _, _)
SortFrom(rs, sorted, us) ==
    IF rs = <<>> THEN sorted
    ELSE SortFrom(Tail(rs), InsertStable(sorted, Head(rs), us), us)

\* A sort through a dict keyed by URL: one record per URL survives.
RECURSIVE LastPerUrl(_)
LastPerUrl(rs) ==
    IF rs = <<>> THEN <<>>
    ELSE IF \E m \in 2..Len(rs) : rs[m].original_url = Head(rs).original_url
         THEN LastPerUrl(Tail(rs))
         ELSE <<Head(rs)>> \o LastPerUrl(Tail(rs))

SortOnePerUrl(rs, us) == SortFrom(LastPerUrl(rs), <<>>, us)

SortByUrlOrder(rs, us) == SortFrom(rs, <<>>, us)

\* The loop over as_completed is over; the results are sorted and returned.
Return ==
    /\ returned = None
    /\ PoolAccepts(max_workers)
    /\ \A i \in DOMAIN tasks : tasks[i].collected
    /\ returned' = Some(SortByUrlOrder(results, urls))
    /\ UNCHANGED <<max_retries, max_workers, urls, tasks, results, durl, dsvc,
                 tick, batch_exc, format, exported,
                   page, captcha>>

\* The inputs of the batches.
MaxUrls == 3
MaxWorkers == 2
MaxBatchRetries == 1
MaxRetries == 3

AdflyUrl == <<"https://", "adf.ly", "/", "1", "/", "a">>
LinkvertiseUrl == <<"https://", "linkvertise.com", "/", "1", "/", "a">>
GyaniUrl == <<"https://", "gyanilinks.com", "/", "1", "/", "a">>
ShortconnectUrl == <<"https://", "shortconnect.com", "/", "a", "1">>
UnknownUrl == <<"https://", "example.com", "/", "a">>
AliasUrl == <<"https://", "j.gs", "/", "1", "/", "a">>

\* "def solve_batch(self, urls, max_workers: int = 5)"
DefaultMaxWorkers == 5

BatchUrls == {ShortconnectUrl, UnknownUrl, NotStr}
SingleUrls == {AdflyUrl, LinkvertiseUrl, GyaniUrl, ShortconnectUrl, UnknownUrl, AliasUrl}

SeqsUpTo(S, n) == UNION { [1..k -> S] : k \in 0..n }

Init ==
    /\ max_retries \in 1..MaxBatchRetries
    /\ max_workers \in {0, MaxWorkers, DefaultMaxWorkers}
    /\ urls \in SeqsUpTo(BatchUrls, MaxUrls)
    /\ tasks = [i \in 1..Len(urls) |-> QueuedTask]
    /\ results = <<>>
    /\ returned = None
    /\ durl = <<>>
    /\ dsvc = None
    /\ tick = 1
    /\ batch_exc = None
    /\ format = "text"
    /\ exported = None
    /\ page = NoPage
    /\ captcha = None

Next ==
    \/ \E i \in DOMAIN tasks : StartTask(i)
    \/ \E i \in DOMAIN tasks : Attempt(i)
    \/ \E i \in DOMAIN tasks : Collect(i)
    \/ Return
    \/ PoolRejects

Spec == Init /\ [][Next]_vars

\* The threads are scheduled, every fetch attempt ends, and the main thread
\* goes on whenever a future is ready.
SpecFair == Spec /\ WF_vars(Next)

-----------------------------------------------------------------------------
(* A call of solve_single on its own, for every max_retries from -1 on.    *)

InitSingle ==
    /\ max_retries \in (-1)..MaxRetries
    /\ max_workers = 1
    /\ urls \in { <<u>> : u \in SingleUrls }
    /\ tasks = [i \in 1..Len(urls) |-> QueuedTask]
    /\ results = <<>>
    /\ returned = None
    /\ durl = <<>>
    /\ dsvc = None
    /\ tick \in {0, 1}
    /\ batch_exc = None
    /\ format = "text"
    /\ exported = None
    /\ page = NoPage
    /\ captcha = None

NextSingle ==
    \/ \E i \in DOMAIN tasks : StartTask(i)
    \/ \E i \in DOMAIN tasks : Attempt(i)

SpecSingle == InitSingle /\ [][NextSingle]_vars

-----------------------------------------------------------------------------
(* A call of detect_service on its own.                                    *)

InitDetect ==
    /\ durl \in DetectUrls
    /\ dsvc = None
    /\ max_retries = 0
    /\ max_workers = 1
    /\ urls = <<>>
    /\ tasks = <<>>
    /\ results = <<>>
    /\ returned = None
    /\ tick = 1
    /\ batch_exc = None
    /\ format = "text"
    /\ exported = None
    /\ page = NoPage
    /\ captcha = None

Detect ==
    /\ dsvc = None
    /\ dsvc' = Some(detect_service(durl))
    /\ UNCHANGED <<max_retries, max_workers, urls, tasks, results, returned, durl,
                 tick, batch_exc, format, exported,
                   page, captcha>>

NextDetect == Detect

SpecDetect == InitDetect /\ [][NextDetect]_vars

-----------------------------------------------------------------------------
(* Properties of detect_service (under SpecDetect).                        *)

Matches(service, url) ==
    \E k \in 1..Len(service_patterns[service]) :
        ReMatch(service_patterns[service][k], url)

\* C8: detect_service returns, for every string, the first service in the
\* order adfly, linkvertise, gyanilinks, shortconnect one of whose patterns
\* matches at the start of the string, case-insensitively, and "unknown" when
\* no pattern of any service matches; it returns a value for every string
\* and changes nothing else.
C8_DetectFirstMatchingService ==
    dsvc # None =>
        LET svc == dsvc[1]
            order == <<"adfly", "linkvertise", "gyanilinks", "shortconnect">>
        IN /\ svc \in {order[k] : k \in 1..4} \cup {"unknown"}
           /\ (svc = "unknown") <=> (\A k \in 1..4 : ~Matches(order[k], durl))
           /\ \A k \in 1..4 :
                (svc = order[k]) <=>
                    /\ Matches(order[k], durl)
                    /\ \A j \in 1..(k - 1) : ~Matches(order[j], durl)
           /\ svc # "unknown" =>
                /\ Len(durl) >= 2
                /\ durl[1] \in {"http://", "https://", "HTTPS://"}
           /\ tasks = <<>> /\ results = <<>> /\ returned = None

\* An upper-case URL with "WWW." has been detected as adfly.
C8_Witness ==
    /\ dsvc = Some("adfly")
    /\ durl = <<"HTTPS://", "WWW.", "ADF.LY", "/", "1", "2", "/", "a">>

\* The URLs https://<host>/<digits>/<path> of the test suite's variants.
AliasForm(url, hosts) ==
    /\ Len(url) >= 5
    /\ url[1] = "https://"
    /\ url[2] \in hosts
    /\ SubSeq(url, 3, Len(url)) \in
            { <<"/", "1", "2", "/", "a">>, <<"/", "1", "/", ":", "/">> }

\* C9: URLs https://<host>/<digits>/<path> with host adf.ly, adfoc.us, j.gs
\* or q.gs are detected as adfly, and with host linkvertise.com, link-to.net,
\* link-center.net or link-hub.net as linkvertise.
C9_AliasHostsDetected ==
    dsvc # None =>
        /\ AliasForm(durl, {"adf.ly", "adfoc.us", "j.gs", "q.gs"})
                => dsvc[1] = "adfly"
        /\ AliasForm(durl, {"linkvertise.com", "link-to.net",
                            "link-center.net", "link-hub.net"})
                => dsvc[1] = "linkvertise"

-----------------------------------------------------------------------------
(* Properties of safe_request and solve_single (under SpecSingle).         *)

Max0(n) == IF n < 0 THEN 0 ELSE n
AllFail(log) == \A k \in 1..Len(log) : log[k] = "fail"
Started == { i \in DOMAIN tasks : tasks[i].pc # "queued" }
Done == { i \in DOMAIN tasks : tasks[i].pc = "done" }
Fetching(i) == UsesFetch(tasks[i].service)

\* C3: when every fetch attempt fails with a transport or HTTP-status error,
\* solve_single on a URL of a known service returns success = false and a
\* non-null error, after exactly max_retries fetch attempts.
C3_AllAttemptsFailGivesError ==
    \A i \in Done :
        (Fetching(i) /\ tasks[i].sr.log # <<>> /\ AllFail(tasks[i].sr.log)) =>
            /\ tasks[i].result[1].success = FALSE
            /\ tasks[i].result[1].error # None
            /\ tasks[i].sr.fetches = max_retries

\* C4: solve_single lets no exception through: no call on a URL string ends
\* by an exception, and when the strategy it invoked raised, the result has
\* success = false, no solved_url, and the exception's message as error.
C4_SolveSingleCapturesExceptions ==
    \A i \in DOMAIN tasks :
        /\ tasks[i].pc # "raised"
        /\ (i \in Done /\ tasks[i].call = "safe_request"
                /\ tasks[i].sr.log # <<>>
                /\ tasks[i].sr.log[Len(tasks[i].sr.log)] = "exc") =>
                /\ tasks[i].result[1].success = FALSE
                /\ tasks[i].result[1].solved_url = None
                /\ tasks[i].result[1].error \in {Some(m) : m \in ExcMsgs}
                /\ tasks[i].result[1].original_url = urls[i]

\* The shortconnect fetch raised a non-request exception on its second
\* attempt and solve_single has returned.
C4_Witness ==
    \E i \in Done :
        /\ tasks[i].service = "shortconnect"
        /\ tasks[i].sr.log = <<"fail", "exc">>
        /\ tasks[i].result[1].error = Some("boom")

\* C5: safe_request makes at most max_retries attempts; an attempt that
\* succeeds is the last one made and its response is what is returned; None
\* is returned only when max_retries attempts were made and all failed.
C5_SafeRequestAttempts ==
    \A i \in Started :
        LET sr == tasks[i].sr
        IN /\ sr.fetches = Len(sr.log)
           /\ sr.fetches <= Max0(max_retries)
           /\ \A k \in 1..Len(sr.log) : sr.log[k] = "ok" => k = Len(sr.log)
           /\ (sr.ret = "response") <=>
                    (sr.log # <<>> /\ sr.log[Len(sr.log)] = "ok")
           /\ sr.ret = "response" => sr.resp.kind = "ok"
           /\ (Fetching(i) /\ sr.ret = "none") =>
                    /\ sr.fetches = Max0(max_retries)
                    /\ AllFail(sr.log)

\* A response was returned on the third attempt of three.
C5_Witness ==
    \E i \in Done :
        /\ max_retries = 3
        /\ tasks[i].sr.log = <<"fail", "fail", "ok">>
        /\ tasks[i].sr.ret = "response"

\* C6: the sleeps of a safe_request call are 2^0, 2^1, ... seconds, one after
\* each failed attempt that is not the last of the max_retries attempts, and
\* none after a successful attempt or after the last failed one: a call
\* whose max_retries >= 1 attempts all fail sleeps max_retries - 1 times.
C6_BackoffSleeps ==
    \A i \in Started :
        LET sr == tasks[i].sr
            failed == Cardinality({ k \in 1..Len(sr.log) : sr.log[k] = "fail" })
        IN /\ \A k \in 1..Len(sr.sleeps) : sr.sleeps[k] = 2 ^ (k - 1)
           /\ sr.ret \in {"running", "response", "raise"} => Len(sr.sleeps) = failed
           /\ (sr.ret = "none" /\ sr.log # <<>>) =>
                    /\ Len(sr.sleeps) = failed - 1
                    /\ Len(sr.sleeps) = max_retries - 1

\* Three attempts of three have failed: the call slept 1 s and 2 s.
C6_Witness ==
    \E i \in Done :
        /\ max_retries = 3
        /\ tasks[i].sr.log = <<"fail", "fail", "fail">>
        /\ tasks[i].sr.sleeps = <<1, 2>>

\* C7: for a URL no service pattern matches, solve_single calls no strategy,
\* makes no fetch, and returns service "unknown", solved_url None,
\* success false and error None.
C7_UnknownServiceNoFetch ==
    \A i \in Started :
        (IsStr(urls[i])
            /\ \A k \in 1..Len(service_order) : ~Matches(service_order[k], urls[i])) =>
            /\ tasks[i].pc = "done"
            /\ tasks[i].call = "none"
            /\ tasks[i].sr.fetches = 0
            /\ tasks[i].result # None
            /\ tasks[i].result[1].original_url = urls[i]
            /\ tasks[i].result[1].service = "unknown"
            /\ tasks[i].result[1].solved_url = None
            /\ tasks[i].result[1].success = FALSE
            /\ tasks[i].result[1].error = None

\* solve_single has returned for https://example.com/a with max_retries = 3.
C7_Witness ==
    \E i \in Done :
        /\ urls[i] = UnknownUrl
        /\ max_retries = 3
        /\ tasks[i].result[1].service = "unknown"

\* C10: for linkvertise and shortconnect, after a successful fetch the
\* candidate is the final response URL if and only if that URL differs from
\* the input URL; when they are equal the candidate is None and success is false.
C10_RedirectCandidateOnlyIfDifferent ==
    \A i \in Done :
        (tasks[i].service \in {"linkvertise", "shortconnect"}
            /\ tasks[i].sr.ret = "response") =>
            LET final == tasks[i].sr.resp.url
                r == tasks[i].result[1]
            IN /\ (r.solved_url = Some(final)) <=> (final # urls[i])
               /\ final = urls[i] => (r.solved_url = None /\ r.success = FALSE)

-----------------------------------------------------------------------------
(* Properties of solve_batch (under Spec).                                 *)

AllStr(us) == \A k \in 1..Len(us) : IsStr(us[k])
Duplicated(us, k) == \E m \in 1..Len(us) : m # k /\ us[m] = us[k]

\* C1: for every non-empty list of URL strings, every max_workers >= 1 and
\* every completion order, solve_batch returns len(urls) results and the
\* original_url of the i-th result is urls[i].
C1_BatchKeepsInputOrder ==
    (returned # None /\ urls # <<>> /\ AllStr(urls)) =>
        /\ Len(returned[1]) = Len(urls)
        /\ \A k \in 1..Len(urls) : returned[1][k].original_url = urls[k]

\* C2: when a URL string occurs more than once in the input, the result of
\* every URL that is not duplicated is still at its input position, and the
\* original_url values of the output, in order, are the input list.
C2_DuplicatesOnlySwapAmongThemselves ==
    (returned # None /\ AllStr(urls)
        /\ \E k \in 1..Len(urls) : Duplicated(urls, k)) =>
        /\ \A k \in 1..Len(urls) :
                ~Duplicated(urls, k) => returned[1][k].original_url = urls[k]
        /\ [k \in 1..Len(returned[1]) |-> returned[1][k].original_url] = urls

-----------------------------------------------------------------------------
(* Properties of extract_adfly_link (under SpecSingle).                    *)

AdflyDone == { i \in Done : tasks[i].call = "extract_adfly_link" }
BodyOf(i) == tasks[i].sr.resp.body
IsHttpUrl(u) ==
    /\ Len(u) >= 8
    /\ SubSeq(u, 1, 4) = <<"h", "t", "t", "p">>

\* C11: extract_adfly_link never raises: its caller sees None when the
\* fetch fails (or raises), None when the body has no ysmm assignment, and
\* for every body either None or an http(s) URL.
C11_ExtractAdflyNeverRaises ==
    \A i \in AdflyDone :
        LET r == tasks[i].result[1]
        IN /\ r.error = None
           /\ tasks[i].sr.ret \in {"none", "raise"} => r.solved_url = None
           /\ (tasks[i].sr.ret = "response" /\ BodyOf(i) = <<>>) => r.solved_url = None
           /\ r.solved_url = None \/ IsHttpUrl(r.solved_url[1])

\* The fetch of an adfly URL raised a non-request exception and
\* solve_single returned a result without a URL.
C11_Witness ==
    \E i \in AdflyDone :
        /\ tasks[i].sr.log = <<"fail", "exc">>
        /\ tasks[i].result[1].solved_url = None
        /\ tasks[i].result[1].success = FALSE

\* C12: when the fetched body holds a ysmm assignment (such as the test's
\* var ysmm = 'MTIzdGVzdGluZzEyMw==';), extract_adfly_link returns a
\* non-null result.
C12_YsmmGivesResult ==
    \A i \in AdflyDone :
        (tasks[i].sr.ret = "response" /\ BodyOf(i) # <<>>) =>
            tasks[i].result[1].solved_url # None

\* The tokens of the fetched body.
TokensOf(i) == { BodyOf(i)[k].ysmm : k \in 1..Len(BodyOf(i)) }

\* C13 as stated: the descramble is its own inverse on every token, of even
\* and of odd length: descrambling twice gives the token back.
C13_DescrambleInvolution ==
    \A i \in AdflyDone : \A t \in TokensOf(i) : Decode(Decode(t)) = t

\* C13 as amended: descrambling twice gives back every token of at most 3
\* characters (lengths 2 and 3 included); for every length the descramble
\* undoes the scramble that places the characters by the inverse rule, and
\* it puts the odd-indexed characters, reversed, before the even-indexed ones.
C13_DescrambleInverse ==
    \A i \in AdflyDone : \A t \in TokensOf(i) :
        /\ Len(t) <= 3 => Decode(Decode(t)) = t
        /\ Decode(Scramble(t)) = t
        /\ Len(Decode(t)) = Len(t)
        /\ \A k \in 1..Len(t) :
                Decode(t)[k] = IF k <= Len(t) \div 2
                               THEN t[2 * (Len(t) \div 2 - k + 1)]
                               ELSE t[2 * (k - Len(t) \div 2) - 1]

\* A body with the three-character token "abc" has been fetched and
\* descrambled: applying the rule twice gives "abc" again.
C13_Witness ==
    \E i \in AdflyDone :
        /\ <<"a", "b", "c">> \in TokensOf(i)
        /\ Decode(<<"a", "b", "c">>) = <<"b", "a", "c">>
        /\ tasks[i].result[1].solved_url = None

-----------------------------------------------------------------------------
(* Properties of the result records (under Spec and SpecSingle).           *)

\* The results solve_single has returned and those solve_batch has returned.
Handed ==
    { tasks[i].result[1] : i \in Done }
    \cup (IF returned = None THEN {}
          ELSE { returned[1][k] : k \in 1..Len(returned[1]) })

Count(seq, r) == Cardinality({ k \in 1..Len(seq) : seq[k] = r })

\* C14: every result solve_single or solve_batch hands to its caller, the
\* failures and the results synthesized for failed tasks included, has a
\* response_time, and it is greater than 0.
C14_ResponseTimePositive ==
    \A r \in Handed : r.response_time # None /\ r.response_time[1] > 0

\* C15: in every result of solve_single or solve_batch, success is true
\* exactly when solved_url is set to a non-empty value.
C15_SuccessIffSolvedUrl ==
    \A r \in Handed :
        r.success <=> (r.solved_url # None /\ r.solved_url[1] # <<>>)

\* solve_batch has returned a successful result and a synthesized one.
C15_Witness ==
    /\ returned # None
    /\ \E k \in 1..Len(returned[1]) :
            returned[1][k].success /\ returned[1][k].solved_url # None
    /\ \E k \in 1..Len(returned[1]) :
            ~returned[1][k].success /\ returned[1][k].error = Some(TypeErrorMsg)

\* C16: in every result of solve_single, error is set only if success is
\* false and solved_url is None; a successful result carries no error.
C16_ErrorOnlyOnFailure ==
    \A i \in Done :
        LET r == tasks[i].result[1]
        IN /\ r.error # None => (r.success = FALSE /\ r.solved_url = None)
           /\ r.success => r.error = None

\* solve_single has returned a result with an error.
C16_Witness ==
    \E i \in Done :
        /\ tasks[i].result[1].error = Some("boom")
        /\ tasks[i].sr.log = <<"exc">>

-----------------------------------------------------------------------------
(* Properties of solve_batch's tasks (under Spec and SpecFair).            *)

RaisedTasks == { i \in DOMAIN tasks : tasks[i].pc = "raised" }

\* What solve_batch is to hold for task i: the result the task returned,
\* or, for a task that raised, the record the claim describes.
Expected(i) ==
    IF i \in RaisedTasks
    THEN [original_url |-> urls[i], service |-> "unknown", solved_url |-> None,
          success |-> FALSE, error |-> tasks[i].exc, response_time |-> None]
    ELSE tasks[i].result[1]

\* C17: for a task that ended by an exception solve_batch adds one result
\* with the task's URL, service "unknown", no solved_url, success false and
\* the exception's message as error; the results of the other tasks are the
\* ones those tasks returned.
C17_FailedTaskGetsSynthesizedResult ==
    /\ \A i \in RaisedTasks : tasks[i].exc = Some(TypeErrorMsg)
    /\ returned # None =>
            /\ Len(returned[1]) = Len(urls)
            /\ \A i \in DOMAIN tasks :
                    Count(returned[1], Expected(i))
                        = Cardinality({ j \in DOMAIN tasks : Expected(j) = Expected(i) })
    /\ \A i \in DOMAIN tasks :
            tasks[i].collected =>
                \E k \in 1..Len(results) : results[k] = Expected(i)

\* solve_batch has returned for a list in which one task raised and
\* another fetched and succeeded.
C17_Witness ==
    /\ returned # None
    /\ RaisedTasks # {}
    /\ \E i \in Done : tasks[i].result[1].success

\* C18: solve_batch lets no exception through to its caller, for any list
\* of URLs (the empty one included) and any max_workers: every failure is a
\* result record.
C18_BatchNeverRaises == batch_exc = None

\* C19: at every moment at most max_workers solve_single calls are running.
C19_AtMostMaxWorkersRunning ==
    Cardinality(Running) <= max_workers

\* Two calls are running with max_workers = 2 while a third one waits.
C19_Witness ==
    /\ max_workers = 2
    /\ Cardinality(Running) = 2
    /\ Queued # {}

\* C20: a task, once started, runs until it has returned or raised,
\* whatever the other tasks do: none is cancelled or taken back; solve_batch
\* returns only after every task has ended and been collected; and, every
\* fetch attempt ending, it does return (when the pool could be built).
C20_TasksRunToCompletion ==
    /\ [](returned # None =>
            \A i \in DOMAIN tasks :
                tasks[i].pc \in {"done", "raised"} /\ tasks[i].collected)
    /\ [][\A i \in DOMAIN tasks :
            /\ tasks[i].pc = "fetch" => tasks'[i].pc \in {"fetch", "done"}
            /\ tasks[i].pc \in {"done", "raised"} =>
                    /\ tasks'[i].pc = tasks[i].pc
                    /\ tasks'[i].result = tasks[i].result]_vars
    /\ (max_workers >= 1) ~> (returned # None)

\* The work task t still has to do: its remaining fetch attempts, its end and
\* its collection.
TaskRank(t) ==
    CASE t.pc = "queued" -> max_retries + 3
      [] t.pc = "fetch" -> (max_retries - t.sr.fetches) + 2
      [] OTHER -> IF t.collected THEN 0 ELSE 1

Rank == Sum([i \in DOMAIN tasks |-> TaskRank(tasks[i])])
        + (IF returned = None /\ batch_exc = None THEN 1 ELSE 0)

\* Some thread can take a step: the guards of PoolRejects, StartTask, Attempt,
\* Collect and Return.
StepPossible ==
    \/ ~PoolAccepts(max_workers) /\ batch_exc = None
    \/ /\ returned = None
       /\ PoolAccepts(max_workers)
       /\ Queued # {}
       /\ WorkerFree(Cardinality(Running), max_workers)
    \/ Running # {}
    \/ /\ returned = None
       /\ \E i \in DOMAIN tasks : Completed(tasks[i]) /\ ~tasks[i].collected
    \/ /\ returned = None
       /\ PoolAccepts(max_workers)
       /\ \A i \in DOMAIN tasks : tasks[i].collected

\* StepPossible is the enabling condition of Next.
StepPossibleIsEnabled == StepPossible <=> ENABLED Next

\* The progress argument behind C20's "eventually returns", as a safety
\* property: every step lowers Rank, which is never negative, and a step is
\* possible for as long as solve_batch has neither returned nor raised.
C20_EveryStepLowersRank ==
    /\ [](Rank >= 0)
    /\ [][Rank' < Rank]_vars
    /\ []((returned = None /\ batch_exc = None) => StepPossible)

\* solve_batch has returned after one task raised and another made its
\* fetch attempt to the end.
C20_Witness ==
    /\ returned # None
    /\ RaisedTasks # {}
    /\ \E i \in Done : tasks[i].sr.fetches >= 1 /\ tasks[i].sr.ret = "none"

-----------------------------------------------------------------------------
(* Independence of the tasks of a batch (under Spec).                      *)

\* The fetch outcomes task t has seen: every attempt but the last one failed,
\* and the response or exception of the last one is kept in sr.resp.
OutcomesOf(t) ==
    [k \in 1..Len(t.sr.log) |->
        IF t.sr.log[k] = "fail" THEN FailOutcome ELSE t.sr.resp]

RECURSIVE Replay(_, _, _, _)
Replay(t, url, outcomes, mr) ==
    IF outcomes = <<>> \/ t.pc # "fetch" THEN t
    ELSE Replay(SolveSingleFetched(t, url, Head(outcomes), mr),
                url, Tail(outcomes), mr)

\* detect_service, tabulated for the elements of the batches.
DetectedService == [u \in BatchUrls |-> detect_service(u)]

\* solve_single(url) run alone against the given fetch outcomes.
solve_single_alone(url, outcomes, mr) ==
    Replay(SolveSingleBeginAs(QueuedTask, url, mr, DetectedService[url]),
           url, outcomes, mr)

\* The tasks a step leaves as they were.
Untouched == { i \in DOMAIN tasks : tasks'[i] = tasks[i] }

Ended(t) == t.pc \in {"done", "raised"}

\* C21: a step of one task leaves the other tasks as they were; a task that
\* ends has done and returns what solve_single does alone for the same URL
\* and the same fetch outcomes, whatever the other tasks did meanwhile; what
\* it returned is not touched afterwards; and every result solve_batch
\* returns is the one of such a run for its URL.
C21_TasksDoNotInterfere ==
    /\ [][/\ Cardinality(DOMAIN tasks \ Untouched) <= 1
          /\ \A i \in DOMAIN tasks \ Untouched :
                /\ Ended(tasks[i]) =>
                      tasks'[i] = [tasks[i] EXCEPT !.collected = TRUE]
                /\ (~Ended(tasks[i]) /\ Ended(tasks'[i])) =>
                      tasks'[i] = solve_single_alone(urls[i], OutcomesOf(tasks'[i]),
                                                     max_retries)]_vars
    /\ [](returned # None =>
            \A k \in 1..Len(returned[1]) :
                \E i \in DOMAIN tasks :
                    /\ urls[i] = returned[1][k].original_url
                    /\ Ended(tasks[i])
                    /\ returned[1][k] = Collected(tasks[i], urls[i]))

\* A call has returned after a fetch while another call was in its fetch.
C21_Witness ==
    /\ Running # {}
    /\ \E i \in Done : tasks[i].sr.fetches >= 1 /\ tasks[i].result[1].success

-----------------------------------------------------------------------------
(* solve_batch only reorders what it collected (under Spec).               *)

Range(seq) == { seq[k] : k \in 1..Len(seq) }

\* seq1 is a reordering of seq2: the same records, each as many times.
IsReordering(seq1, seq2) ==
    /\ Len(seq1) = Len(seq2)
    /\ \A r \in Range(seq1) \cup Range(seq2) : Count(seq1, r) = Count(seq2, r)

\* C22: a collected record is never changed: results only grows at its end,
\* by the record of the task collected, it has one record per collected
\* task, and the returned list is a reordering of it, record for record.
C22_ReturnedIsReorderingOfCollected ==
    /\ [](Len(results) = Cardinality({ i \in DOMAIN tasks : tasks[i].collected }))
    /\ [](returned # None => IsReordering(returned[1], results))
    /\ [][/\ Len(results') >= Len(results)
          /\ SubSeq(results', 1, Len(results)) = results
          /\ Len(results') <= Len(results) + 1
          /\ Len(results') = Len(results) + 1 =>
                \E i \in DOMAIN tasks :
                    /\ ~tasks[i].collected /\ tasks'[i].collected
                    /\ results'[Len(results')] = Expected(i)
          /\ returned # None => returned' = returned]_vars

\* solve_batch has returned its records in another order than it collected
\* them, a synthesized one among them.
C22_Witness ==
    /\ returned # None
    /\ returned[1] # results
    /\ \E k \in 1..Len(results) : results[k].error = Some(TypeErrorMsg)

-----------------------------------------------------------------------------
(* The pattern loop of extract_adfly_link (under SpecSingle).              *)

\* The capture of the first pattern of the list that matches the body.
FirstMatch(html) ==
    LET captures == PatternCaptures(html)
    IN IF captures[1] # None THEN captures[1] ELSE captures[2]

\* C26: once a pattern has matched the body, extract_adfly_link returns the
\* first http(s) URL of that match's descrambled capture, or None if it has
\* none; no later pattern is consulted.
C26_OnlyFirstMatchingPattern ==
    \A i \in AdflyDone :
        (tasks[i].sr.ret = "response" /\ FirstMatch(BodyOf(i)) # None) =>
            tasks[i].result[1].solved_url
                = UrlSearch(Decode(FirstMatch(BodyOf(i))[1]))

-----------------------------------------------------------------------------
(* The work a batch does (under Spec).                                     *)

TotalFetches == Sum([i \in DOMAIN tasks |-> tasks[i].sr.fetches])

\* C27: solve_single is entered at most once for an element of the list,
\* and exactly once for each (equal elements included) when solve_batch
\* returns; a solve_single makes at most one safe_request call and so at
\* most max_retries fetch attempts, and the batch at most
\* len(urls) * max_retries.
C27_OneRunPerElementBoundedFetches ==
    /\ \A i \in DOMAIN tasks :
            /\ tasks[i].runs = (IF tasks[i].pc = "queued" THEN 0 ELSE 1)
            /\ tasks[i].calls <= 1
            /\ tasks[i].sr.fetches <= max_retries
    /\ TotalFetches <= Len(urls) * max_retries
    /\ returned # None =>
            /\ DOMAIN tasks = 1..Len(urls)
            /\ \A i \in DOMAIN tasks : tasks[i].runs = 1

\* solve_batch has returned for a list with a repeated URL, every call
\* having used all its attempts.
C27_Witness ==
    /\ returned # None
    /\ \E i, j \in DOMAIN tasks : i # j /\ urls[i] = urls[j]
    /\ TotalFetches = Len(urls) * max_retries
    /\ TotalFetches >= 2

-----------------------------------------------------------------------------
(* The edges of safe_request (under SpecSingle).                           *)

\* C28: with max_retries 0 or negative safe_request makes no fetch attempt
\* and no sleep and returns None, so solve_single ends at once, and for a
\* URL of a known service with success false, no solved_url and no error.
C28_NoAttemptWithoutRetries ==
    max_retries <= 0 =>
        \A i \in Started :
            /\ tasks[i].pc = "done"
            /\ tasks[i].sr.fetches = 0
            /\ tasks[i].sr.log = <<>>
            /\ tasks[i].sr.sleeps = <<>>
            /\ Fetching(i) =>
                    /\ tasks[i].calls = 1
                    /\ tasks[i].sr.ret = "none"
                    /\ tasks[i].result[1].success = FALSE
                    /\ tasks[i].result[1].solved_url = None
                    /\ tasks[i].result[1].error = None

\* solve_single has returned for a shortconnect URL with max_retries = -1.
C28_Witness ==
    \E i \in Done :
        /\ max_retries = -1
        /\ tasks[i].service = "shortconnect"
        /\ tasks[i].sr.ret = "none"
        /\ tasks[i].result[1].success = FALSE

\* C29: an exception of a fetch attempt that is not a RequestException ends
\* safe_request at once: it is the last attempt made, whatever attempts
\* remain, no sleep follows it, and it leaves safe_request as an exception.
C29_OtherExceptionEndsSafeRequest ==
    \A i \in Started :
        LET sr == tasks[i].sr
        IN \A k \in 1..Len(sr.log) :
              sr.log[k] = "exc" =>
                  /\ k = Len(sr.log)
                  /\ sr.ret = "raise"
                  /\ sr.resp.kind = "exc"
                  /\ Len(sr.sleeps) = k - 1
                  /\ sr.fetches = k
                  /\ tasks[i].pc = "done"

\* The first of three attempts has raised and solve_single has returned.
C29_Witness ==
    \E i \in Done :
        /\ max_retries = 3
        /\ tasks[i].sr.log = <<"exc">>
        /\ tasks[i].sr.sleeps = <<>>
        /\ tasks[i].sr.ret = "raise"

-----------------------------------------------------------------------------
(* export_results.  A text is a sequence of tokens; the quote, the comma   *)
(* and the newline are tokens of their own wherever they occur.            *)

Quote == "\""
Comma == ","
NL == "\n"

RECURSIVE Join(_, _)
Join(lines, sep) ==
    IF lines = <<>> THEN <<>>
    ELSE IF Len(lines) = 1 THEN lines[1]
    ELSE lines[1] \o <<sep>> \o Join(Tail(lines), sep)

\* f"{x or ''}" and f"{x or 0}" for an Optional x, f"{b}" for a bool.
OrEmpty(opt) == IF opt = None THEN <<>> ELSE opt[1]
OrZero(opt) == IF opt = None THEN <<"0">> ELSE <<ToString(opt[1])>>
BoolText(b) == IF b THEN <<"True">> ELSE <<"False">>
Quoted(text) == <<Quote>> \o text \o <<Quote>>

CsvHeader ==
    <<"original_url", Comma, "service", Comma, "solved_url", Comma,
      "success", Comma, "response_time", Comma, "error">>

\* The f-string of the csv branch for one result.
CsvLine(r) ==
    Quoted(r.original_url) \o <<Comma>> \o Quoted(<<r.service>>) \o <<Comma>>
    \o Quoted(OrEmpty(r.solved_url)) \o <<Comma>>
    \o BoolText(r.success) \o <<Comma>> \o OrZero(r.response_time) \o <<Comma>>
    \o Quoted(OrEmpty(r.error))

\* The four lines of the text branch for result number i; the last one
\* formats response_time with ".2f", which None does not support.
TextLines(r, i) ==
    << <<ToString(i), ". ">> \o r.original_url,
       <<"   Service: ", r.service>>,
       IF r.success THEN <<"   Solved: ">> \o OrEmpty(r.solved_url)
       ELSE <<"   Failed: ">>
            \o (IF r.error = None \/ r.error[1] = <<>>
                THEN <<"Unknown error">> ELSE r.error[1]),
       <<"   Time: ", ToString(r.response_time[1]), ".00s">>,
       <<>> >>

RECURSIVE Flatten(_)
Flatten(seqs) == IF seqs = <<>> THEN <<>> ELSE Head(seqs) \o Flatten(Tail(seqs))

\* The dict the json branch appends for one result.
JsonObject(r) ==
    [original_url |-> r.original_url, service |-> r.service,
     solved_url |-> r.solved_url, success |-> r.success,
     response_time |-> r.response_time, error |-> r.error]

\* The module imports re, time, random, logging, typing, dataclasses,
\* urllib.parse, requests and concurrent.futures: the name json is not bound.
JsonImported == FALSE
NameErrorMsg == "name 'json' is not defined"
FormatErrorMsg == "unsupported format string passed to NoneType.__format__"

\* What export_results gives: a text (or, for json, the array dumped), or
\* an exception.
Exported(text) == [raised |-> FALSE, msg |-> "", text |-> text]
ExportRaised(msg) == [raised |-> TRUE, msg |-> msg, text |-> <<>>]

export_results(rs, fmt) ==
    CASE fmt = "json" ->
            IF JsonImported
            THEN Exported([k \in 1..Len(rs) |-> JsonObject(rs[k])])
            ELSE ExportRaised(NameErrorMsg)
      [] fmt = "csv" ->
            Exported(Join(<<CsvHeader>> \o [k \in 1..Len(rs) |-> CsvLine(rs[k])], NL))
      [] OTHER ->
            IF \E k \in 1..Len(rs) : rs[k].response_time = None
            THEN ExportRaised(FormatErrorMsg)
            ELSE Exported(Join(Flatten([k \in 1..Len(rs) |-> TextLines(rs[k], k)]), NL))

\* The rows a csv reader finds in a text: a newline ends a row unless it
\* stands inside a quoted field; a doubled quote inside a quoted field is a
\* quote; after the closing quote of a field the reader is outside quotes.
RECURSIVE CsvRowsFrom(_, _, _, _)
CsvRowsFrom(text, state, rows, open) ==
    IF text = <<>> THEN rows + (IF open THEN 1 ELSE 0)
    ELSE LET c == Head(text)
             rest == Tail(text)
         IN CASE state = "quoted" ->
                    CsvRowsFrom(rest, IF c = Quote THEN "quote" ELSE "quoted", rows, TRUE)
              [] c = NL -> CsvRowsFrom(rest, "start", rows + 1, FALSE)
              [] c = Comma -> CsvRowsFrom(rest, "start", rows, TRUE)
              [] state = "quote" ->
                    CsvRowsFrom(rest, IF c = Quote THEN "quoted" ELSE "field", rows, TRUE)
              [] state = "start" ->
                    CsvRowsFrom(rest, IF c = Quote THEN "quoted" ELSE "field", rows, TRUE)
              [] OTHER -> CsvRowsFrom(rest, "field", rows, TRUE)

CsvRows(text) == CsvRowsFrom(text, "start", 0, FALSE)

\* The result lists handed to export_results.
MaxResults == 2

ExportTexts ==
    { <<"a">>, <<"a", Comma, "b">>, <<"a", Quote, "b">>, <<"a", NL, "b">>,
      <<"a", Quote, NL, "b">> }

ExportRecords ==
    { [original_url |-> u, service |-> "adfly", solved_url |-> Some(<<"c">>),
       success |-> TRUE, error |-> None, response_time |-> Some(1)] :
        u \in ExportTexts }
    \cup { [original_url |-> <<"a">>, service |-> "unknown", solved_url |-> None,
            success |-> FALSE, error |-> e, response_time |-> rt] :
            e \in {None} \cup { Some(t) : t \in ExportTexts },
            rt \in {None, Some(0), Some(2)} }

InitExport ==
    /\ max_retries = 1
    /\ max_workers = 1
    /\ urls = <<>>
    /\ tasks = <<>>
    /\ results \in SeqsUpTo(ExportRecords, MaxResults)
    /\ returned = None
    /\ durl = <<>>
    /\ dsvc = None
    /\ tick = 1
    /\ batch_exc = None
    /\ format \in {"json", "csv", "text"}
    /\ exported = None
    /\ page = NoPage
    /\ captcha = None

\* One call export_results(results, format).
Export ==
    /\ exported = None
    /\ exported' = Some(export_results(results, format))
    /\ UNCHANGED <<max_retries, max_workers, urls, tasks, results, returned, durl,
                   dsvc, tick, batch_exc, format, page, captcha>>

NextExport == Export

SpecExport == InitExport /\ [][NextExport]_vars

\* C23: export_results in csv format gives the header row and then exactly
\* one row per result, whatever characters the URL and error fields hold.
C23_CsvOneRowPerResult ==
    (format = "csv" /\ exported # None) =>
        /\ exported[1].raised = FALSE
        /\ SubSeq(exported[1].text, 1, Len(CsvHeader)) = CsvHeader
        /\ CsvRows(exported[1].text) = 1 + Len(results)

\* C24: export_results in json format does not fail and gives an array with
\* one object per result, in order, with the six fields of the result.
C24_JsonOneObjectPerResult ==
    (format = "json" /\ exported # None) =>
        /\ exported[1].raised = FALSE
        /\ exported[1].text = [k \in 1..Len(results) |-> JsonObject(results[k])]

\* C30: export_results in text format does not raise on a list solve_batch
\* has returned, lists with a synthesized result included.
C30_TextExportOfBatchSucceeds ==
    returned # None => export_results(returned[1], "text").raised = FALSE

-----------------------------------------------------------------------------
(* RektCaptchaSolver.solve_from_page (src/rektcaptcha_solver.py).          *)

\* ReCaptchaResult(success, ...) with the defaults of the dataclass.
ReCaptchaResult(success) ==
    [success |-> success, solution |-> None, method |-> "unknown",
     execution_time |-> 0, error |-> None, metadata |-> None]

\* The HTML solve_from_page builds, as the sequence of its sitekey
\* attributes: form 1 is data-sitekey="...", form 2 is sitekey: "...".
MockHtml == << [form |-> 1, key |-> "test_sitekey_123"] >>

\* The sitekey loop of extract_recaptcha_params: the first pattern of the
\* list that matches gives the key of its first match.
extract_recaptcha_params(html) ==
    LET at(f) == { k \in 1..Len(html) : html[k].form = f }
        first(f) == html[CHOOSE k \in at(f) : \A m \in at(f) : k <= m].key
    IN [sitekey |-> IF at(1) # {} THEN Some(first(1))
                    ELSE IF at(2) # {} THEN Some(first(2)) ELSE None]

\* What a callee does: it returns a value or raises.
Returns(v) == [raised |-> FALSE, value |-> v, msg |-> ""]
Raises(msg) == [raised |-> TRUE, value |-> None, msg |-> msg]

\* solve_recaptcha_v2 as written: a mock token made of the time and a
\* random number.
MockTokens == {"mock_token_1_1000", "mock_token_1_9999"}
solve_recaptcha_v2(sitekey, token) ==
    [ReCaptchaResult(TRUE) EXCEPT
        !.solution = Some(token), !.method = "mock",
        !.metadata = Some([sitekey |-> sitekey, note |-> "Mock solver for testing"])]

\* extract_recaptcha_params on the mock HTML, and what the repository's
\* tests put in its place: params with a key, with None, with an empty key,
\* and an exception.
ExtractOutcomes ==
    { Returns(extract_recaptcha_params(MockHtml)),
      Returns([sitekey |-> Some("test_sitekey")]),
      Returns([sitekey |-> None]),
      Returns([sitekey |-> Some("")]),
      Raises("HTML parsing error") }

\* solve_recaptcha_v2 on the key, and what the tests put in its place: a
\* given result, and an exception; its own except branch gives a failure.
SolveOutcomes(sitekey) ==
    { Returns(solve_recaptcha_v2(sitekey, t)) : t \in MockTokens }
    \cup { Returns([ReCaptchaResult(TRUE) EXCEPT
                      !.solution = Some("mock_token_123"), !.method = "mock"]),
           Returns([ReCaptchaResult(FALSE) EXCEPT !.error = Some("Test exception")]),
           Raises("Test exception") }

PageUrls == {"https://example.com/a", "https://example.com/b", ""}

\* "if not params['sitekey']"
Truthy(opt) == opt # None /\ opt[1] # ""

\* The failure result of solve_from_page.
CaptchaFailure(msg, elapsed) ==
    [ReCaptchaResult(FALSE) EXCEPT !.error = Some(msg), !.execution_time = elapsed]

\* A solve_from_page without the sitekey test.
solve_from_page_no_test(extract, solve, elapsed) ==
    IF extract.raised
    THEN [raised |-> FALSE, calls |-> 0, result |-> CaptchaFailure(extract.msg, elapsed)]
    ELSE IF solve.raised
         THEN [raised |-> FALSE, calls |-> 1,
               result |-> CaptchaFailure(solve.msg, elapsed)]
         ELSE [raised |-> FALSE, calls |-> 1,
               result |-> [solve.value EXCEPT !.execution_time = elapsed]]

\* solve_from_page, given what its two callees do; calls counts the calls
\* of solve_recaptcha_v2.
solve_from_page(extract, solve, elapsed) ==
    IF extract.raised
    THEN [raised |-> FALSE, calls |-> 0, result |-> CaptchaFailure(extract.msg, elapsed)]
    ELSE IF ~Truthy(extract.value.sitekey)
         THEN [raised |-> FALSE, calls |-> 0,
               result |-> CaptchaFailure("No reCAPTCHA found", elapsed)]
         ELSE IF solve.raised
              THEN [raised |-> FALSE, calls |-> 1,
                    result |-> CaptchaFailure(solve.msg, elapsed)]
              ELSE [raised |-> FALSE, calls |-> 1,
                    result |-> [solve.value EXCEPT !.execution_time = elapsed]]

InitCaptcha ==
    /\ max_retries = 1
    /\ max_workers = 1
    /\ urls = <<>>
    /\ tasks = <<>>
    /\ results = <<>>
    /\ returned = None
    /\ durl = <<>>
    /\ dsvc = None
    /\ tick \in {0, 1}
    /\ batch_exc = None
    /\ format = "text"
    /\ exported = None
    /\ \E u \in PageUrls, e \in ExtractOutcomes :
          \E v \in SolveOutcomes(IF e.raised THEN None ELSE e.value.sitekey) :
              page = [page_url |-> u, extract |-> e, solve |-> v]
    /\ captcha = None

\* One call solve_from_page(page_url).
SolveFromPage ==
    /\ captcha = None
    /\ captcha' = Some(solve_from_page(page.extract, page.solve, tick))
    /\ UNCHANGED <<max_retries, max_workers, urls, tasks, results, returned, durl,
                   dsvc, tick, batch_exc, format, exported, page>>

NextCaptcha == SolveFromPage

SpecCaptcha == InitCaptcha /\ [][NextCaptcha]_vars

\* C25: solve_from_page never raises; with no sitekey extracted it returns
\* success false and error "No reCAPTCHA found" and does not call
\* solve_recaptcha_v2; when the extraction raises it returns success false
\* with the exception's message; otherwise it calls solve_recaptcha_v2 once
\* and returns its result (with execution_time set anew, and a failure
\* result if that call raises).
C25_SolveFromPageNeverRaises ==
    captcha # None =>
        LET out == captcha[1]
            e == page.extract
            v == page.solve
        IN /\ out.raised = FALSE
           /\ e.raised =>
                 /\ out.calls = 0
                 /\ out.result.success = FALSE
                 /\ out.result.error = Some(e.msg)
           /\ (~e.raised /\ e.value.sitekey \in {None, Some("")}) =>
                 /\ out.calls = 0
                 /\ out.result.success = FALSE
                 /\ out.result.error = Some("No reCAPTCHA found")
           /\ (~e.raised /\ e.value.sitekey \notin {None, Some("")}) =>
                 /\ out.calls = 1
                 /\ ~v.raised =>
                       /\ out.result.success = v.value.success
                       /\ out.result.solution = v.value.solution
                       /\ out.result.method = v.value.method
                       /\ out.result.error = v.value.error
                       /\ out.result.metadata = v.value.metadata
                 /\ v.raised =>
                       /\ out.result.success = FALSE
                       /\ out.result.error = Some(v.msg)

\* solve_from_page has returned "No reCAPTCHA found" without a call of
\* solve_recaptcha_v2.
C25_Witness ==
    /\ captcha # None
    /\ page.extract = Returns([sitekey |-> None])
    /\ captcha[1].calls = 0
    /\ captcha[1].result.error = Some("No reCAPTCHA found")

====
